---------------------------- MODULE Spec2Model ----------------------------
(***************************************************************************)
(* Faculty-Research-Match: similarity computation and ranking subsystem.   *)
(*                                                                         *)
(*   lib/similarity.ts              lexical (TF-IDF) ranking               *)
(*   lib/transformers-embedding.ts  provider handle, cosine, findSimilar,  *)
(*                                  padding / extraction                   *)
(*   lib/advanced-similarity.ts     dense-or-lexical orchestration         *)
(*   api/network/route.ts           pairwise similarity graph, cluster     *)
(*                                  names                                  *)
(*   api/faculty/[id]/route.ts      record-mode match behind the route     *)
(*   api/ingest/route.ts            bulk import with embeddings            *)
(*                                                                         *)
(* Numbers.  TLC has integers only, so every real number of the code is a  *)
(* fixed-point integer: similarities and thresholds are in hundredths      *)
(* (0.1 is 10, 1.0 is 100), Math.log is tabulated in tenths, a term        *)
(* frequency count/length is kept exactly as count * (TFScale / length).   *)
(* The vector lengths 384 and 1536 are scaled to NativeDim and             *)
(* 4 * NativeDim.  Words are small integers; word 0 stands for the words   *)
(* tokenize drops (a stop word, or a word of at most two characters).      *)
(***************************************************************************)
EXTENDS Integers, Sequences, FiniteSets, TLC

\* ------------------------------------------------------------------ bounds
\* native embedding length (384 in the source, scaled)
NativeDim == 2
\* storage embedding length (1536 = 4 * 384 in the source)
StorageDim == 4 * NativeDim
\* largest number of rows of the faculty table
MaxFaculty == 3

\* ----------------------------------------------------------- small helpers
Abs(x) == IF x < 0 THEN 0 - x ELSE x

Min(a, b) == IF a <= b THEN a ELSE b

Range(s) == {s[i] : i \in DOMAIN s}

RECURSIVE SumSeq(_)
SumSeq(s) == IF s = <<>> THEN 0 ELSE s[1] + SumSeq(Tail(s))

Max(a, b) == IF a >= b THEN a ELSE b

\* Array.prototype.slice(0, n): a negative n counts from the end
SliceTo(s, n) == SubSeq(s, 1, IF n < 0 THEN Max(Len(s) + n, 0) ELSE Min(Len(s), n))

\* floor of the square root of x, 0 <= x <= 10000
ISqrt(x) == CHOOSE k \in 0..100 : k * k <= x /\ x < (k + 1) * (k + 1)

\* dot / (sqrt(na) * sqrt(nb)) in hundredths, truncated towards zero;
\* na, nb are the squared norms, both positive
Quotient100(dot, na, nb) ==
    LET p == na * nb
        d2 == dot * dot
        q1 == (100 * d2) \div p
        r1 == (100 * d2) % p
        x == 100 * q1 + ((100 * r1) \div p)
    IN  IF dot < 0 THEN 0 - ISqrt(x) ELSE ISqrt(x)

Dot(a, b) == SumSeq([i \in 1..Len(a) |-> a[i] * b[i]])

NormSq(a) == SumSeq([i \in 1..Len(a) |-> a[i] * a[i]])

Zeros(n) == [i \in 1..n |-> 0]

\* ---------------------------------------------------- lib/similarity.ts
\* the words tokenize drops: length <= 2, or in the stop-word list
StopOrShort == {0}

\* the "words" that hold no word character (punctuation only)
Punctuation == {-1}

\* lowercase, non-word characters to blanks, split on blanks, drop the words
\* of length <= 2 and the stop words
tokenize(text) == SelectSeq(text, LAMBDA w : w \notin StopOrShort \cup Punctuation)

\* the texts of the model: keywords of the records, and queries
KeywordPool == {<<1, 2>>, <<0, 2>>, <<1>>, <<-1>>}

QueryPool == {<<2>>, <<0>>, <<1, 3>>}

LeastCommonMultiple(S) ==
    CHOOSE m \in 1..720 : /\ \A n \in S : m % n = 0
                          /\ \A k \in 1..(m - 1) : \E n \in S : k % n # 0

\* count / totalTerms is kept as the integer count * (TFScale / totalTerms)
TFScale ==
    LeastCommonMultiple({Len(tokenize(t)) : t \in KeywordPool \cup QueryPool} \ {0})

Count(tokens, term) == Len(SelectSeq(tokens, LAMBDA w : w = term))

\* Map term -> count / totalTerms over the terms of the document
calculateTF(tokens) ==
    [term \in Range(tokens) |-> Count(tokens, term) * (TFScale \div Len(tokens))]

\* Math.log(n / d) in tenths, 1 <= d <= n <= 6
LogTenths(n, d) ==
    LET ln == <<0, 7, 11, 14, 16, 18>> IN ln[n] - ln[d]

\* Map term -> ln(totalDocs / docsContainingTerm) over the observed terms
calculateIDF(documents) ==
    LET terms == UNION {Range(documents[i]) : i \in DOMAIN documents}
        docCount(term) == Cardinality({i \in DOMAIN documents : term \in Range(documents[i])})
    IN  [term \in terms |-> LogTenths(Len(documents), docCount(term))]

\* the vocabulary in sorted order
RECURSIVE SortedSeq(_)
SortedSeq(S) ==
    IF S = {} THEN <<>>
    ELSE LET m == CHOOSE x \in S : \A y \in S : x <= y
         IN  <<m>> \o SortedSeq(S \ {m})

calculateTFIDF(tf, idf, allTerms) ==
    LET terms == SortedSeq(allTerms)
    IN  [i \in 1..Len(terms) |->
            (IF terms[i] \in DOMAIN tf THEN tf[terms[i]] ELSE 0)
          * (IF terms[i] \in DOMAIN idf THEN idf[terms[i]] ELSE 0)]

\* similarity.ts cosineSimilarity: 0 on a length mismatch or a zero norm
cosineSimilarityLexical(vectorA, vectorB) ==
    IF Len(vectorA) # Len(vectorB) THEN 0
    ELSE IF NormSq(vectorA) = 0 \/ NormSq(vectorB) = 0 THEN 0
    ELSE Quotient100(Dot(vectorA, vectorB), NormSq(vectorA), NormSq(vectorB))

Reverse(s) == [i \in 1..Len(s) |-> s[Len(s) + 1 - i]]

\* a descending sort that is not stable: rows of equal similarity come out
\* in reverse input order
RECURSIVE SortBySimilarityUnstable(_)
SortBySimilarityUnstable(rows) ==
    IF rows = <<>> THEN <<>>
    ELSE LET top == CHOOSE v \in {rows[i].similarity : i \in DOMAIN rows} :
                        \A i \in DOMAIN rows : rows[i].similarity <= v
         IN  Reverse(SelectSeq(rows, LAMBDA r : r.similarity = top))
             \o SortBySimilarityUnstable(SelectSeq(rows, LAMBDA r : r.similarity # top))

\* Array.prototype.sort((a, b) => b.similarity - a.similarity): stable,
\* descending
RECURSIVE SortBySimilarity(_)
SortBySimilarity(rows) ==
    IF rows = <<>> THEN <<>>
    ELSE LET top == CHOOSE v \in {rows[i].similarity : i \in DOMAIN rows} :
                        \A i \in DOMAIN rows : rows[i].similarity <= v
         IN  SelectSeq(rows, LAMBDA r : r.similarity = top)
             \o SortBySimilarity(SelectSeq(rows, LAMBDA r : r.similarity # top))

\* ------------------------------------------ lib/transformers-embedding.ts
\* a value, or the exception an operation throws
Ok(v) == [ok |-> TRUE, val |-> v]

Threw == [ok |-> FALSE, val |-> <<>>]

\* the entry of getEmbeddingPipeline without the isLoadingModel test
EntryBranchNoFlag(pipeline, loading) ==
    IF pipeline = "loaded" THEN "resolved" ELSE "loading"

\* the entry of getEmbeddingPipeline, up to its first await
EntryBranch(pipeline, loading) ==
    IF pipeline = "loaded" THEN "resolved"
    ELSE IF loading THEN "polling"
    ELSE "loading"

\* lowercase, collapse blanks, strip punctuation, trim
cleanText(text) == SelectSeq(text, LAMBDA w : w \notin Punctuation)

Unit(k) == [i \in 1..NativeDim |-> IF i = k THEN 1 ELSE 0]

\* the provider, a black box text -> vector[NativeDim], deterministic in the
\* cleaned text: here the sum of one axis vector per word
RECURSIVE pipe(_)
pipe(cleanedText) ==
    IF cleanedText = <<>> THEN Zeros(NativeDim)
    ELSE LET rest == pipe(Tail(cleanedText))
             axis == Unit((cleanedText[1] % NativeDim) + 1)
         IN  [i \in 1..NativeDim |-> axis[i] + rest[i]]

\* generateEmbedding once the provider call has settled: providerOK is
\* whether getEmbeddingPipeline and pipe(...) both resolved
generateEmbedding(text, providerOK) ==
    IF cleanText(text) = <<>> THEN Ok(Zeros(NativeDim))
    ELSE IF providerOK THEN Ok(pipe(cleanText(text)))
    ELSE Threw

\* a cosine that scores a zero vector as a full match
cosineSimilarityZeroIsOne(a, b) ==
    IF Len(a) # Len(b) THEN Threw
    ELSE IF NormSq(a) = 0 \/ NormSq(b) = 0 THEN Ok(100)
    ELSE Ok(Quotient100(Dot(a, b), NormSq(a), NormSq(b)))

\* throws on a length mismatch, 0 on a zero norm
cosineSimilarity(a, b) ==
    IF Len(a) # Len(b) THEN Threw
    ELSE IF NormSq(a) = 0 \/ NormSq(b) = 0 THEN Ok(0)
    ELSE Ok(Quotient100(Dot(a, b), NormSq(a), NormSq(b)))

\* candidates: rows with an embedding field; throws when a cosine throws
findSimilar(queryEmbedding, candidates, topK, minSimilarity) ==
    LET scored == [i \in DOMAIN candidates |->
                      cosineSimilarity(queryEmbedding, candidates[i].embedding)]
    IN  IF \E i \in DOMAIN candidates : ~scored[i].ok THEN Threw
        ELSE LET rows == [i \in DOMAIN candidates |->
                             [faculty_id |-> candidates[i].faculty_id,
                              school |-> candidates[i].school,
                              department |-> candidates[i].department,
                              similarity |-> scored[i].val]]
             IN  Ok(SliceTo(SortBySimilarity(
                        SelectSeq(rows, LAMBDA r : r.similarity >= minSimilarity)), topK))

\* returns a storage-length input as it is; pads any shorter input; for a
\* longer input new Array(1536 - length) throws a RangeError
padEmbeddingTo1536(embedding) ==
    IF Len(embedding) = StorageDim THEN Ok(embedding)
    ELSE IF Len(embedding) > StorageDim THEN Threw
    ELSE Ok(embedding \o Zeros(StorageDim - Len(embedding)))

\* an extraction that takes the last entries instead of the first
extractEmbeddingFrom1536Last(embedding) ==
    IF Len(embedding) = NativeDim THEN embedding
    ELSE SubSeq(embedding, Max(Len(embedding) - NativeDim, 0) + 1, Len(embedding))

\* returns a native-length input as it is; else the first 384 entries
extractEmbeddingFrom1536(embedding) ==
    IF Len(embedding) = NativeDim THEN embedding
    ELSE SubSeq(embedding, 1, Min(Len(embedding), NativeDim))

\* ------------------------------------------------ lib/advanced-similarity.ts
padEmbeddingTo1536Compat(embedding384) ==
    IF Len(embedding384) # NativeDim THEN Threw
    ELSE padEmbeddingTo1536(embedding384)

extractReal384Embedding(embedding1536) ==
    IF Len(embedding1536) # StorageDim THEN Threw
    ELSE Ok(extractEmbeddingFrom1536(embedding1536))

\* a dispatch that hands a storage-length embedding on as it is stored
ReadStoredEmbeddingAsStored(stored) ==
    IF Len(stored) = StorageDim THEN Ok(stored)
    ELSE IF Len(stored) = NativeDim THEN Ok(stored)
    ELSE Threw

\* the length dispatch applied to every stored embedding that is read
ReadStoredEmbedding(stored) ==
    IF Len(stored) = StorageDim THEN extractReal384Embedding(stored)
    ELSE IF Len(stored) = NativeDim THEN Ok(stored)
    ELSE Threw

\* ------------------------------------------------------------ the storage
\* A row of the faculty table.  embedding is <<>> for NULL and <<v>> for a
\* stored vector v.  name and title are display fields no operation reads.
Malformed == Zeros(NativeDim) \o <<1>>

RecordPool ==
    { [school |-> 1, department |-> 1, keywords |-> <<1, 2>>,
       embedding |-> <<padEmbeddingTo1536(Unit(1)).val>>],
      [school |-> 1, department |-> 2, keywords |-> <<0, 2>>,
       embedding |-> <<[i \in 1..NativeDim |-> 1]>>],
      [school |-> 2, department |-> 2, keywords |-> <<1>>,
       embedding |-> <<>>],
      [school |-> 2, department |-> 1, keywords |-> <<-1>>,
       embedding |-> <<Malformed>>] }

\* the tables of at most MaxFaculty rows; faculty_id is the primary key
Tables ==
    UNION { { [i \in 1..n |-> [faculty_id |-> i,
                               school |-> b[i].school,
                               department |-> b[i].department,
                               keywords |-> b[i].keywords,
                               embedding |-> b[i].embedding]] :
              b \in [1..n -> RecordPool] } : n \in 0..MaxFaculty }

\* supabase.from('faculty').select(...).eq('school', ..).eq('department', ..)
\* a filter of 0 is undefined: the .eq is not applied
Select(table, filterSchool, filterDepartment) ==
    SelectSeq(table, LAMBDA f :
        /\ (filterSchool # 0 => f.school = filterSchool)
        /\ (filterDepartment # 0 => f.department = filterDepartment))

Row(f, similarity) ==
    [faculty_id |-> f.faculty_id, school |-> f.school,
     department |-> f.department, similarity |-> similarity]

\* ---------------------------------------- lib/similarity.ts, the rankings
\* the rows of `pool` scored against targetTokens over the corpus
\* allDocuments, kept from minSimilarity up, sorted, the first maxResults
RankLexical(targetTokens, allDocuments, pool, maxResults, minSimilarity) ==
    LET allTerms == UNION {Range(allDocuments[i]) : i \in DOMAIN allDocuments}
        idf == calculateIDF(allDocuments)
        targetVector == calculateTFIDF(calculateTF(targetTokens), idf, allTerms)
        facultyVector(f) ==
            calculateTFIDF(calculateTF(tokenize(f.keywords)), idf, allTerms)
        similarities ==
            [i \in DOMAIN pool |->
                Row(pool[i], cosineSimilarityLexical(targetVector, facultyVector(pool[i])))]
    IN  IF allTerms = {} THEN <<>>
        ELSE SliceTo(SortBySimilarity(
                 SelectSeq(similarities, LAMBDA r : r.similarity >= minSimilarity)),
                 maxResults)

\* a ranking whose IDF basis leaves the target's document out
calculateSimilarFacultyBasisWithoutTarget(table, fetchOK, targetFacultyId, options) ==
    LET allFaculty == Select(table, options.filterSchool, options.filterDepartment)
        found == SelectSeq(allFaculty, LAMBDA f : f.faculty_id = targetFacultyId)
        otherFaculty == SelectSeq(allFaculty, LAMBDA f : f.faculty_id # targetFacultyId)
        otherDocuments == [i \in DOMAIN otherFaculty |-> tokenize(otherFaculty[i].keywords)]
    IN  IF ~fetchOK THEN <<>>
        ELSE IF found = <<>> THEN <<>>
        ELSE RankLexical(tokenize(found[1].keywords), otherDocuments, otherFaculty,
                         options.maxResults, options.minSimilarity)

\* fetchOK: whether the query of the table resolved without an error
calculateSimilarFaculty(table, fetchOK, targetFacultyId, options) ==
    LET allFaculty == Select(table, options.filterSchool, options.filterDepartment)
        found == SelectSeq(allFaculty, LAMBDA f : f.faculty_id = targetFacultyId)
        otherFaculty == SelectSeq(allFaculty, LAMBDA f : f.faculty_id # targetFacultyId)
        allDocuments == [i \in DOMAIN allFaculty |-> tokenize(allFaculty[i].keywords)]
    IN  IF ~fetchOK THEN <<>>
        ELSE IF found = <<>> THEN <<>>
        ELSE RankLexical(tokenize(found[1].keywords), allDocuments, otherFaculty,
                         options.maxResults, options.minSimilarity)

searchSimilarFaculty(table, fetchOK, query, options) ==
    LET allFaculty == Select(table, options.filterSchool, options.filterDepartment)
        queryTokens == tokenize(query)
        allDocuments == [i \in DOMAIN allFaculty |-> tokenize(allFaculty[i].keywords)]
    IN  IF ~fetchOK THEN <<>>
        ELSE RankLexical(queryTokens, <<queryTokens>> \o allDocuments, allFaculty,
                         options.maxResults, options.minSimilarity)

\* ------------------------------------------------------------------ state
VARIABLES
    faculty,            \* the faculty table (storage collaborator)
    embeddingPipeline,  \* transformers-embedding.ts: "null" or "loaded"
    isLoadingModel,     \* transformers-embedding.ts: a load is in flight
    request,            \* the arguments of the match call being served
    pc,                 \* where that call stands
    targetFaculty,      \* calculateAdvancedSimilarity: <<>> or <<the target row>>
    candidates,         \* facultyWithEmbeddings
    completion,         \* "pending", "returned" or "threw"
    returned,           \* the value the call resolved to: [rows |-> ...]
    path,               \* which ranking produced the rows: "none", "dense", "lexical"
    trail,              \* what happened inside the call (never seen by the caller)
    network,            \* the network route: its request and its response
    callers,            \* the callers of getEmbeddingPipeline
    primitive           \* the last call of a vector primitive: arguments, results

vars == <<faculty, embeddingPipeline, isLoadingModel, request, pc, targetFaculty,
          candidates, completion, returned, path, trail, network, callers, primitive>>

\* the callers of getEmbeddingPipeline that may be active at once
NumCallers == 3

Callers == 1..NumCallers

NoNetwork ==
    [pc |-> "idle", threshold |-> 0, maxConnections |-> 0, filterSchool |-> 0,
     filterDepartment |-> 0, status |-> 0, error |-> "", nodes |-> <<>>, links |-> <<>>,
     compared |-> {}]  \* the lengths (a, b) of the vectors handed to the cosine

NoPrimitive == [op |-> "none"]

NoCallers == [p \in Callers |-> [pc |-> "idle", kind |-> "none", via |-> "none"]]

NoRequest ==
    [mode |-> "none", targetFacultyId |-> 0, query |-> <<>>,
     options |-> [maxResults |-> 0, minSimilarity |-> 0, filterSchool |-> 0,
                  filterDepartment |-> 0, useAdvanced |-> FALSE]]

\* the events `trail` records
NoTrail ==
    [probe |-> "none",        \* "skipped", "ok", "failed"
     targetFetch |-> "none",  \* "found", "absent", "error"
     denseFetch |-> "none",   \* "ok", "error"
     embeddings |-> "none",   \* "some", "zero"
     rank |-> "none",         \* "ok", "threw" (target or query embedding),
                              \* "malformed" (a candidate's stored embedding)
     compared |-> {},         \* the lengths (a, b) of the vectors handed to the cosine
     lexicalFetch |-> "none", \* "ok", "error"
     lexicalTarget |-> "none"] \* record mode, after the fetch: "found", "absent"

\* the option values a caller passes (hundredths for minSimilarity)
MaxResultsValues == {1, 3}

MinSimilarityValues == {70}

Filters == {<<0, 0>>, <<1, 0>>, <<0, 2>>}

OptionValues ==
    { [maxResults |-> k, minSimilarity |-> m, filterSchool |-> f[1],
       filterDepartment |-> f[2], useAdvanced |-> u] :
      k \in MaxResultsValues, m \in MinSimilarityValues, f \in Filters, u \in BOOLEAN }

\* a fallback that forgets the department filter
LexicalOptionsNoDepartment(options) ==
    [maxResults |-> options.maxResults, minSimilarity |-> options.minSimilarity,
     filterSchool |-> options.filterSchool, filterDepartment |-> 0]

\* the options handed to the lexical operation on a fallback
LexicalOptions(options) ==
    [maxResults |-> options.maxResults, minSimilarity |-> options.minSimilarity,
     filterSchool |-> options.filterSchool,
     filterDepartment |-> options.filterDepartment]

\* 'machine learning and artificial intelligence'
testText == <<1, 0, 2>>

testEmbeddingService(providerOK) ==
    LET embedding == generateEmbedding(testText, providerOK)
    IN  IF ~embedding.ok THEN FALSE
        ELSE IF Len(embedding.val) # NativeDim THEN FALSE
        ELSE IF SumSeq([i \in DOMAIN embedding.val |-> Abs(embedding.val[i])]) = 0 THEN FALSE
        ELSE TRUE

Init ==
    /\ faculty \in Tables
    /\ embeddingPipeline = "null"
    /\ isLoadingModel = FALSE
    /\ request = NoRequest
    /\ pc = "idle"
    /\ targetFaculty = <<>>
    /\ candidates = <<>>
    /\ completion = "pending"
    /\ returned = [rows |-> <<>>]
    /\ path = "none"
    /\ trail = NoTrail
    /\ network = NoNetwork
    /\ callers = NoCallers
    /\ primitive = NoPrimitive

\* a caller invokes calculateAdvancedSimilarity(targetFacultyId, options)
MatchByRecord(id, options) ==
    /\ pc = "idle"
    /\ request' = [mode |-> "record", targetFacultyId |-> id, query |-> <<>>,
                   options |-> options]
    /\ pc' = "probe"
    /\ UNCHANGED <<primitive, network, callers, faculty, embeddingPipeline, isLoadingModel, targetFaculty,
                   candidates, completion, returned, path, trail>>

\* a caller invokes searchAdvancedSimilarity(query, options)
MatchByQuery(query, options) ==
    /\ pc = "idle"
    /\ request' = [mode |-> "query", targetFacultyId |-> 0, query |-> query,
                   options |-> options]
    /\ pc' = "probe"
    /\ UNCHANGED <<primitive, network, callers, faculty, embeddingPipeline, isLoadingModel, targetFaculty,
                   candidates, completion, returned, path, trail>>

\* new AdvancedSimilarityService(): the constructor calls warmupModel, which
\* runs preloadModel and getEmbeddingPipeline up to the first await; the
\* value is isLoadingModel after it
ConstructService(pipeline, loading) ==
    IF EntryBranch(pipeline, loading) = "loading" THEN TRUE ELSE loading

\* useAdvanced = false: the service is constructed, then isEmbeddingAvailable
\* is false without a probe
SkipProbe ==
    /\ pc = "probe"
    /\ ~request.options.useAdvanced
    /\ isLoadingModel' = ConstructService(embeddingPipeline, isLoadingModel)
    /\ pc' = "lexical"
    /\ trail' = [trail EXCEPT !.probe = "skipped"]
    /\ UNCHANGED <<primitive, network, callers, faculty, embeddingPipeline, request,
                   targetFaculty, candidates, completion, returned, path>>

\* the load the warm-up started settles, whenever it does: the handle is
\* assigned on success, and finally clears the flag
WarmupSettles(loadOK) ==
    /\ isLoadingModel
    /\ embeddingPipeline' = IF loadOK THEN "loaded" ELSE embeddingPipeline
    /\ isLoadingModel' = FALSE
    /\ UNCHANGED <<primitive, network, callers, faculty, request, pc, targetFaculty,
                   candidates, completion, returned, path, trail>>

\* new AdvancedSimilarityService() starts the warm-up load, then
\* testEmbeddingEnvironment() awaits the provider: loadOK is whether the
\* load (if one was needed) resolved, embedOK whether pipe(...) resolved
ProbeDense(loadOK, embedOK) ==
    /\ pc = "probe"
    /\ request.options.useAdvanced
    /\ (embeddingPipeline = "loaded" => loadOK)
    /\ LET ready == embeddingPipeline = "loaded" \/ loadOK
           isEmbeddingAvailable == testEmbeddingService(ready /\ embedOK)
       IN  /\ embeddingPipeline' = IF ready THEN "loaded" ELSE "null"
           /\ trail' = [trail EXCEPT
                           !.probe = IF isEmbeddingAvailable THEN "ok" ELSE "failed"]
           /\ pc' = IF ~isEmbeddingAvailable THEN "lexical"
                    ELSE IF request.mode = "record" THEN "fetchTarget"
                    ELSE "fetchCandidates"
    /\ UNCHANGED <<primitive, network, callers, faculty, isLoadingModel, request, targetFaculty, candidates,
                   completion, returned, path>>

\* supabase...eq('faculty_id', targetFacultyId).single(): an error, or no
\* row, returns [] at once
FetchTarget(fetchOK) ==
    /\ pc = "fetchTarget"
    /\ LET rows == SelectSeq(faculty, LAMBDA f : f.faculty_id = request.targetFacultyId)
       IN  IF fetchOK /\ rows # <<>>
           THEN /\ targetFaculty' = <<rows[1]>>
                /\ trail' = [trail EXCEPT !.targetFetch = "found"]
                /\ pc' = "fetchCandidates"
                /\ UNCHANGED <<completion, returned>>
           ELSE /\ trail' = [trail EXCEPT
                                !.targetFetch = IF fetchOK THEN "absent" ELSE "error"]
                /\ returned' = [rows |-> <<>>]
                /\ completion' = "returned"
                /\ pc' = "done"
                /\ UNCHANGED targetFaculty
    /\ UNCHANGED <<primitive, network, callers, faculty, embeddingPipeline, isLoadingModel, request, candidates, path>>

\* the filtered set; record mode returns [] on an error, query mode throws
\* into the catch; no row with an embedding throws into the catch
FetchCandidates(fetchOK) ==
    /\ pc = "fetchCandidates"
    /\ LET allFaculty == Select(faculty, request.options.filterSchool,
                                request.options.filterDepartment)
           otherFaculty ==
               IF request.mode = "record"
               THEN SelectSeq(allFaculty, LAMBDA f : f.faculty_id # request.targetFacultyId)
               ELSE allFaculty
           facultyWithEmbeddings == SelectSeq(otherFaculty, LAMBDA f : f.embedding # <<>>)
       IN  IF ~fetchOK /\ request.mode = "record"
           THEN /\ trail' = [trail EXCEPT !.denseFetch = "error"]
                /\ returned' = [rows |-> <<>>]
                /\ completion' = "returned"
                /\ pc' = "done"
                /\ UNCHANGED candidates
           ELSE IF ~fetchOK
           THEN /\ trail' = [trail EXCEPT !.denseFetch = "error"]
                /\ pc' = "lexical"
                /\ UNCHANGED <<candidates, returned, completion>>
           ELSE IF facultyWithEmbeddings = <<>>
           THEN /\ trail' = [trail EXCEPT !.denseFetch = "ok", !.embeddings = "zero"]
                /\ pc' = "lexical"
                /\ UNCHANGED <<candidates, returned, completion>>
           ELSE /\ trail' = [trail EXCEPT !.denseFetch = "ok", !.embeddings = "some"]
                /\ candidates' = facultyWithEmbeddings
                /\ pc' = "rank"
                /\ UNCHANGED <<returned, completion>>
    /\ UNCHANGED <<primitive, network, callers, faculty, embeddingPipeline, isLoadingModel, request, targetFaculty, path>>

\* the target's stored embedding, or one generated from its keywords
TargetEmbedding(target, embedOK) ==
    IF target.embedding # <<>> THEN ReadStoredEmbedding(target.embedding[1])
    ELSE generateEmbedding(target.keywords, embedOK)

\* AdvancedSimilarityService.findSimilarFaculty: [] when findSimilar throws
findSimilarFaculty(targetEmbedding, allEmbeddings, facultyData, topK, threshold) ==
    LET withEmbedding ==
            [i \in DOMAIN allEmbeddings |->
                [faculty_id |-> facultyData[i].faculty_id,
                 school |-> facultyData[i].school,
                 department |-> facultyData[i].department,
                 embedding |-> allEmbeddings[i]]]
        results == findSimilar(targetEmbedding, withEmbedding, topK, threshold)
    IN  IF results.ok THEN results.val ELSE <<>>

\* a ranking that saves the embedding it generated for a target without one
TableAfterRankStoring(table, target, targetEmbedding) ==
    [i \in DOMAIN table |->
        IF table[i].faculty_id = target.faculty_id /\ table[i].embedding = <<>>
        THEN [table[i] EXCEPT !.embedding = <<padEmbeddingTo1536(targetEmbedding).val>>]
        ELSE table[i]]

\* the table after the target's embedding was read or generated: the vector
\* stays in the local targetEmbedding, no statement of the call writes it
TableAfterRank(table, target, targetEmbedding) == table

\* the target or query embedding, the candidates' native vectors, the ranking
DenseRank(embedOK) ==
    /\ pc = "rank"
    /\ LET targetEmbedding ==
               IF request.mode = "record"
               THEN TargetEmbedding(targetFaculty[1], embedOK)
               ELSE generateEmbedding(request.query, embedOK)
           realEmbeddings ==
               [i \in DOMAIN candidates |-> ReadStoredEmbedding(candidates[i].embedding[1])]
       IN  /\ faculty' = IF request.mode = "record" /\ targetEmbedding.ok
                         THEN TableAfterRank(faculty, targetFaculty[1], targetEmbedding.val)
                         ELSE faculty
           /\ IF ~targetEmbedding.ok
              THEN /\ trail' = [trail EXCEPT !.rank = "threw"]
                   /\ pc' = "lexical"
                   /\ UNCHANGED <<returned, completion, path>>
              ELSE IF \E i \in DOMAIN candidates : ~realEmbeddings[i].ok
              THEN /\ trail' = [trail EXCEPT !.rank = "malformed"]
                   /\ pc' = "lexical"
                   /\ UNCHANGED <<returned, completion, path>>
              ELSE /\ trail' = [trail EXCEPT
                                   !.rank = "ok",
                                   !.compared = {<<Len(targetEmbedding.val),
                                                   Len(realEmbeddings[i].val)>> :
                                                    i \in DOMAIN candidates}]
                   /\ returned' =
                          [rows |-> findSimilarFaculty(
                                        targetEmbedding.val,
                                        [i \in DOMAIN candidates |-> realEmbeddings[i].val],
                                        candidates, request.options.maxResults,
                                        request.options.minSimilarity)]
                   /\ completion' = "returned"
                   /\ path' = "dense"
                   /\ pc' = "done"
    /\ UNCHANGED <<primitive, network, callers, embeddingPipeline, isLoadingModel, request,
                   targetFaculty, candidates>>

\* calculateSimilarFaculty / searchSimilarFaculty, called when the probe was
\* skipped or failed and from the catch of the dense path
LexicalOnly(fetchOK) ==
    /\ pc = "lexical"
    /\ returned' =
           [rows |-> IF request.mode = "record"
                     THEN calculateSimilarFaculty(faculty, fetchOK,
                              request.targetFacultyId, LexicalOptions(request.options))
                     ELSE searchSimilarFaculty(faculty, fetchOK, request.query,
                              LexicalOptions(request.options))]
    /\ trail' = [trail EXCEPT
                    !.lexicalFetch = IF fetchOK THEN "ok" ELSE "error",
                    !.lexicalTarget =
                        IF request.mode # "record" \/ ~fetchOK THEN "none"
                        ELSE IF \E f \in Range(Select(faculty, request.options.filterSchool,
                                                      request.options.filterDepartment)) :
                                   f.faculty_id = request.targetFacultyId
                        THEN "found"
                        ELSE "absent"]
    /\ completion' = "returned"
    /\ path' = "lexical"
    /\ pc' = "done"
    /\ UNCHANGED <<primitive, network, callers, faculty, embeddingPipeline, isLoadingModel, request,
                   targetFaculty, candidates>>

Next ==
    \/ \E id \in 1..(MaxFaculty + 1), options \in OptionValues : MatchByRecord(id, options)
    \/ \E query \in QueryPool, options \in OptionValues : MatchByQuery(query, options)
    \/ SkipProbe
    \/ \E loadOK \in BOOLEAN : WarmupSettles(loadOK)
    \/ \E loadOK \in BOOLEAN, embedOK \in BOOLEAN : ProbeDense(loadOK, embedOK)
    \/ \E fetchOK \in BOOLEAN : FetchTarget(fetchOK)
    \/ \E fetchOK \in BOOLEAN : FetchCandidates(fetchOK)
    \/ \E embedOK \in BOOLEAN : DenseRank(embedOK)
    \/ \E fetchOK \in BOOLEAN : LexicalOnly(fetchOK)

Spec == Init /\ [][Next]_vars

\* ------------------------------------------------- properties of the calls
Done == pc = "done"

\* a step of the dense path failed inside the call
DenseStepFailed ==
    \/ trail.probe = "failed"
    \/ trail.denseFetch = "error"
    \/ trail.rank \in {"threw", "malformed"}

TargetAbsent ==
    /\ request.mode = "record"
    /\ \A i \in DOMAIN faculty : faculty[i].faculty_id # request.targetFacultyId

\* what the lexical operation returns when called directly with the caller's
\* arguments, its fetch answering as the call's own lexical fetch did
DirectLexicalRows ==
    IF request.mode = "record"
    THEN calculateSimilarFaculty(faculty, trail.lexicalFetch = "ok",
                                 request.targetFacultyId, request.options)
    ELSE searchSimilarFaculty(faculty, trail.lexicalFetch = "ok",
                              request.query, request.options)

\* C1: whenever a step of the dense path fails (the probe, the candidate
\* fetch, reading an embedding, the ranking), the call runs the lexical path
\* and returns its result; an empty list never stands in for the failure.
C1_DenseFailureFallsBackToLexical ==
    (Done /\ DenseStepFailed /\ ~TargetAbsent) =>
        /\ path = "lexical"
        /\ returned.rows = DirectLexicalRows

\* C2: matchByRecord with a target id absent from storage ends in a NotFound
\* failure propagated to the caller on every path, without the lexical
\* fallback, and so differs from a successful call with zero matches.
C2_AbsentTargetIsNotFound ==
    (Done /\ TargetAbsent) =>
        /\ completion = "threw"
        /\ trail.lexicalFetch = "none"

\* C3: every returned result carries a provenance tag, "dense" exactly when
\* the dense ranking produced the rows and "lexical" exactly when the lexical
\* path did.
C3_ResultCarriesProvenance ==
    (Done /\ completion = "returned") =>
        /\ "provenance" \in DOMAIN returned
        /\ returned.provenance \in {"dense", "lexical"}
        /\ returned.provenance = path

\* C4: when the probe fails, the call returns exactly the rows, in the same
\* order, that the lexical operation returns when called directly with the
\* same target or query, maxResults, minSimilarity and filters.
C4_ProbeFailureEqualsDirectLexical ==
    (Done /\ trail.probe = "failed") =>
        /\ completion = "returned"
        /\ returned.rows = DirectLexicalRows

C4_Witness ==
    /\ Done
    /\ trail.probe = "failed"
    /\ request.options.filterDepartment # 0
    /\ request.options.maxResults = 1
    /\ Len(returned.rows) = 1
    /\ Len(faculty) = 3

\* C7: matchByQuery over an empty filtered set returns an empty list with a
\* provenance tag and never throws, whatever the query and the provider do.
C7_EmptyFilteredSetReturnsTaggedEmpty ==
    (/\ Done
     /\ request.mode = "query"
     /\ Select(faculty, request.options.filterSchool,
               request.options.filterDepartment) = <<>>) =>
        /\ completion = "returned"
        /\ returned.rows = <<>>
        /\ "provenance" \in DOMAIN returned

PositionOf(id) == CHOOSE i \in DOMAIN faculty : faculty[i].faculty_id = id

\* C10: on both paths every returned row has score >= minSimilarity, the rows
\* are in non-increasing score order, and rows of equal score keep the order
\* their records had in the candidate set.
C10_RowsFilteredSortedStable ==
    (Done /\ path \in {"dense", "lexical"}) =>
        /\ \A i \in DOMAIN returned.rows :
               returned.rows[i].similarity >= request.options.minSimilarity
        /\ \A i, j \in DOMAIN returned.rows :
               i < j =>
                   /\ returned.rows[i].similarity >= returned.rows[j].similarity
                   /\ (returned.rows[i].similarity = returned.rows[j].similarity =>
                          PositionOf(returned.rows[i].faculty_id)
                              < PositionOf(returned.rows[j].faculty_id))

C10_Witness ==
    /\ Done
    /\ path = "dense"
    /\ Len(returned.rows) = 3
    /\ returned.rows[1].similarity > returned.rows[2].similarity
    /\ returned.rows[2].similarity = returned.rows[3].similarity

\* C27: when useAdvanced is false a match call goes directly to LexicalOnly:
\* the provider is neither probed nor loaded as a consequence of the call,
\* and the result is the lexical result.
C27_NoProviderWhenDenseNotPreferred ==
    (pc # "idle" /\ ~request.options.useAdvanced) =>
        /\ trail.probe \in {"none", "skipped"}
        /\ pc \in {"probe", "lexical", "done"}
        /\ embeddingPipeline = "null"
        /\ ~isLoadingModel
        /\ Done => (path = "lexical" /\ returned.rows = DirectLexicalRows)

\* the filtered set of the call, and the lexical ranking of its rows other
\* than the target over the documents of `basis`
FilteredSet == Select(faculty, request.options.filterSchool, request.options.filterDepartment)

LexicalRowsOver(basis) ==
    RankLexical(tokenize(faculty[PositionOf(request.targetFacultyId)].keywords),
                [i \in DOMAIN basis |-> tokenize(basis[i].keywords)],
                SelectSeq(FilteredSet, LAMBDA f : f.faculty_id # request.targetFacultyId),
                request.options.maxResults, request.options.minSimilarity)

\* C24: in record mode the target record never appears among the returned
\* rows, on the dense path and on the lexical path, while the target's text
\* still counts as one document of the lexical IDF basis.
C24_TargetExcludedButInIDFBasis ==
    (Done /\ request.mode = "record" /\ path \in {"dense", "lexical"}) =>
        /\ \A i \in DOMAIN returned.rows :
               returned.rows[i].faculty_id # request.targetFacultyId
        /\ (/\ path = "lexical"
            /\ trail.lexicalFetch = "ok"
            /\ \E i \in DOMAIN FilteredSet :
                   FilteredSet[i].faculty_id = request.targetFacultyId) =>
               returned.rows = LexicalRowsOver(FilteredSet)

C24_Witness ==
    /\ Done
    /\ request.mode = "record"
    /\ path = "lexical"
    /\ returned.rows # <<>>
    /\ LexicalRowsOver(FilteredSet) #
           LexicalRowsOver(SelectSeq(FilteredSet,
                                     LAMBDA f : f.faculty_id # request.targetFacultyId))

\* the candidates of the call: the filtered set, without the target in
\* record mode
CandidatePool ==
    IF request.mode = "record"
    THEN SelectSeq(FilteredSet, LAMBDA f : f.faculty_id # request.targetFacultyId)
    ELSE FilteredSet

NoCandidateEmbedded == \A i \in DOMAIN CandidatePool : CandidatePool[i].embedding = <<>>

\* C28: when the probe succeeds but no candidate of the filtered set (the
\* target excluded in record mode) carries an embedding, the call goes to
\* LexicalOnly and returns the lexical ranking of the same filtered set;
\* DenseRank is reached only when some candidate carries an embedding.
C28_NoEmbeddedCandidateGoesLexical ==
    /\ (Done /\ trail.probe = "ok" /\ trail.denseFetch = "ok" /\ NoCandidateEmbedded) =>
           /\ trail.rank = "none"
           /\ path = "lexical"
           /\ returned.rows = DirectLexicalRows
    /\ (pc = "rank" \/ trail.rank # "none") => ~NoCandidateEmbedded

C28_Witness ==
    /\ Done
    /\ request.mode = "record"
    /\ trail.probe = "ok"
    /\ trail.targetFetch = "found"
    /\ trail.denseFetch = "ok"
    /\ NoCandidateEmbedded
    /\ CandidatePool # <<>>
    /\ request.options.filterDepartment # 0
    /\ Len(FilteredSet) < Len(faculty)
    /\ path = "lexical"
    /\ trail.lexicalFetch = "ok"

TargetStored ==
    /\ request.mode = "record"
    /\ \E i \in DOMAIN faculty : faculty[i].faculty_id = request.targetFacultyId

\* C30: in record mode the school and department filters restrict only the
\* candidate pool: a target that exists in storage but does not itself
\* satisfy the filters is found on the dense path and on the lexical path
\* alike, so whether it is found does not depend on the path the call took.
C30_FiltersRestrictOnlyCandidates ==
    TargetStored =>
        /\ trail.targetFetch # "absent"
        /\ trail.lexicalTarget # "absent"

\* ------------------------------------------------- api/network/route.ts
\* a number, or NaN
Num(v) == [nan |-> FALSE, val |-> v]

NaN == [nan |-> TRUE, val |-> 0]

\* no length check: 0 on a zero norm; else a shorter b makes the dot product
\* NaN and a longer b counts in its norm only
calculateCosineSimilarity(a, b) ==
    IF NormSq(a) = 0 \/ NormSq(b) = 0 THEN Num(0)
    ELSE IF Len(b) < Len(a) THEN NaN
    ELSE Num(Quotient100(Dot(a, SubSeq(b, 1, Len(a))), NormSq(a), NormSq(b)))

\* the route's own extractReal384Embedding
extractReal384(embedding1536) ==
    IF Len(embedding1536) # StorageDim THEN Threw
    ELSE Ok(SubSeq(embedding1536, 1, NativeDim))

\* the length dispatch of the route (lines 89-98)
NetworkEmbedding(stored) ==
    IF Len(stored) = StorageDim THEN extractReal384(stored)
    ELSE IF Len(stored) = NativeDim THEN Ok(stored)
    ELSE Threw

\* [...new Set(faculty.map(f => f.department))]: first occurrences, in order
RECURSIVE Distinct(_)
Distinct(s) ==
    IF s = <<>> THEN <<>>
    ELSE LET init == Distinct(SubSeq(s, 1, Len(s) - 1))
         IN  IF s[Len(s)] \in Range(init) THEN init ELSE Append(init, s[Len(s)])

IndexOf(s, x) == CHOOSE i \in DOMAIN s : s[i] = x /\ \A j \in 1..(i - 1) : s[j] # x

\* the colors array of the route
PaletteSize == 8

NetworkNodes(rows) ==
    LET departments == Distinct([i \in DOMAIN rows |-> rows[i].department])
    IN  [i \in DOMAIN rows |->
            LET clusterId == IndexOf(departments, rows[i].department) - 1
            IN  [id |-> rows[i].faculty_id, school |-> rows[i].school,
                 department |-> rows[i].department, clusterId |-> clusterId,
                 color |-> clusterId % PaletteSize, keywords |-> rows[i].keywords]]

\* the inner loop starts at the node itself
FromSelf(i, n) == i..n

\* for (let j = i + 1; j < faculty.length; j++)
LaterNodes(i, n) == (i + 1)..n

RECURSIVE IndexSeq(_, _)
IndexSeq(lo, hi) == IF lo > hi THEN <<>> ELSE <<lo>> \o IndexSeq(lo + 1, hi)

\* the connections of node i: the kept pairs with the nodes of LaterNodes,
\* sorted, the first maxConnections, as links
LinksOf(i, rows, embeddings, threshold, maxConnections) ==
    LET js == SelectSeq(IndexSeq(1, Len(rows)), LAMBDA j : j \in LaterNodes(i, Len(rows)))
        scored == [k \in DOMAIN js |->
                      [target |-> rows[js[k]].faculty_id,
                       similarity |-> calculateCosineSimilarity(embeddings[i], embeddings[js[k]])]]
        kept == SelectSeq(scored, LAMBDA c : ~c.similarity.nan /\ c.similarity.val >= threshold)
        connections == [k \in DOMAIN kept |->
                           [target |-> kept[k].target,
                            similarity |-> kept[k].similarity.val,
                            weight |-> Min(kept[k].similarity.val * 5, 300)]]
        limited == SliceTo(SortBySimilarity(connections), maxConnections)
    IN  [k \in DOMAIN limited |->
            [source |-> rows[i].faculty_id, target |-> limited[k].target,
             similarity |-> limited[k].similarity, weight |-> limited[k].weight]]

RECURSIVE LinksUpTo(_, _, _, _, _)
LinksUpTo(i, rows, embeddings, threshold, maxConnections) ==
    IF i = 0 THEN <<>>
    ELSE LinksUpTo(i - 1, rows, embeddings, threshold, maxConnections)
         \o LinksOf(i, rows, embeddings, threshold, maxConnections)

NetworkLinks(rows, embeddings, threshold, maxConnections) ==
    LinksUpTo(Len(rows), rows, embeddings, threshold, maxConnections)

\* the rows with an embedding, each at most once
GraphPool ==
    { [school |-> 1, department |-> 2, keywords |-> <<1, 2>>,
       embedding |-> <<padEmbeddingTo1536([i \in 1..NativeDim |-> IF i = 1 THEN 2 ELSE 1]).val>>],
      [school |-> 1, department |-> 1, keywords |-> <<2>>,
       embedding |-> <<padEmbeddingTo1536([i \in 1..NativeDim |-> 1]).val>>],
      [school |-> 1, department |-> 2, keywords |-> <<0, 2>>,
       embedding |-> <<Unit(1)>>],
      [school |-> 2, department |-> 3, keywords |-> <<1>>,
       embedding |-> <<padEmbeddingTo1536(Unit(2)).val>>],
      [school |-> 2, department |-> 1, keywords |-> <<1>>,
       embedding |-> <<>>],
      [school |-> 2, department |-> 1, keywords |-> <<-1>>,
       embedding |-> <<Malformed>>] }

GraphTables ==
    UNION { { [i \in 1..n |-> [faculty_id |-> i,
                               school |-> b[i].school,
                               department |-> b[i].department,
                               keywords |-> b[i].keywords,
                               embedding |-> b[i].embedding]] :
              b \in [1..n -> GraphPool] } : n \in 0..MaxFaculty }

\* the thresholds (hundredths) and caps the caller passes
ThresholdValues == {50, 90}

MaxConnectionsValues == {1, 2}

GraphInit ==
    /\ faculty \in GraphTables
    /\ embeddingPipeline = "null"
    /\ isLoadingModel = FALSE
    /\ request = NoRequest
    /\ pc = "idle"
    /\ targetFaculty = <<>>
    /\ candidates = <<>>
    /\ completion = "pending"
    /\ returned = [rows |-> <<>>]
    /\ path = "none"
    /\ trail = NoTrail
    /\ network = NoNetwork
    /\ callers = NoCallers
    /\ primitive = NoPrimitive

\* GET /api/network: 500 when the fetch fails or an embedding is malformed,
\* else the nodes and the links
NetworkGET(threshold, maxConnections, filterSchool, filterDepartment, fetchOK) ==
    /\ network.pc = "idle"
    /\ LET rows == SelectSeq(Select(faculty, filterSchool, filterDepartment),
                             LAMBDA f : f.embedding # <<>>)
           embeddings == [i \in DOMAIN rows |-> NetworkEmbedding(rows[i].embedding[1])]
           threw == \E i \in DOMAIN rows : ~embeddings[i].ok
           failed == ~fetchOK \/ threw
       IN  network' =
               [pc |-> "done", threshold |-> threshold, maxConnections |-> maxConnections,
                filterSchool |-> filterSchool, filterDepartment |-> filterDepartment,
                status |-> IF failed THEN 500 ELSE 200,
                error |-> IF ~fetchOK THEN "Failed to fetch faculty data"
                          ELSE IF threw THEN "Internal server error"
                          ELSE "",
                compared |-> IF failed THEN {}
                             ELSE UNION {{<<Len(embeddings[i].val), Len(embeddings[j].val)>> :
                                             j \in LaterNodes(i, Len(rows))} :
                                         i \in DOMAIN rows},
                nodes |-> IF failed THEN <<>> ELSE NetworkNodes(rows),
                links |-> IF failed THEN <<>>
                          ELSE NetworkLinks(rows, [i \in DOMAIN rows |-> embeddings[i].val],
                                            threshold, maxConnections)]
    /\ UNCHANGED <<primitive, faculty, embeddingPipeline, isLoadingModel, request, pc, targetFaculty,
                   candidates, completion, returned, path, trail, callers>>

GraphNext ==
    \E threshold \in ThresholdValues, maxConnections \in MaxConnectionsValues,
       filter \in Filters, fetchOK \in BOOLEAN :
        NetworkGET(threshold, maxConnections, filter[1], filter[2], fetchOK)

GraphSpec == GraphInit /\ [][GraphNext]_vars

\* ------------------------------------------------ properties of the graph
GraphBuilt == network.pc = "done" /\ network.status = 200

\* C8: for records with unique ids, every threshold and every maxConnections,
\* no edge has source = target, no ordered (source, target) pair occurs
\* twice, never both (a, b) and (b, a), and no edge is below threshold.
C8_EdgesWellFormed ==
    GraphBuilt =>
        \A i \in DOMAIN network.links :
            /\ network.links[i].source # network.links[i].target
            /\ network.links[i].similarity >= network.threshold
            /\ \A j \in DOMAIN network.links :
                   j # i =>
                       /\ ~(/\ network.links[j].source = network.links[i].source
                            /\ network.links[j].target = network.links[i].target)
                       /\ ~(/\ network.links[j].source = network.links[i].target
                            /\ network.links[j].target = network.links[i].source)

C8_Witness ==
    /\ GraphBuilt
    /\ Len(network.nodes) = 3
    /\ Len(network.links) = 2
    /\ network.maxConnections = 2

\* the similarity of nodes a and b of the built graph, from their stored rows
NodeSimilarity(a, b) ==
    calculateCosineSimilarity(NetworkEmbedding(faculty[PositionOf(a)].embedding[1]).val,
                              NetworkEmbedding(faculty[PositionOf(b)].embedding[1]).val).val

NodeIds == {network.nodes[i].id : i \in DOMAIN network.nodes}

\* the kept pairs {x, y} of node x: every other node at or above the threshold
KeptPartners(x) ==
    {y \in NodeIds \ {x} : NodeSimilarity(x, y) >= network.threshold}

\* {a, b} is among the maxConnections strongest kept pairs of x whatever the
\* order of equal similarities
InTopOf(x, y) ==
    /\ y \in KeptPartners(x)
    /\ Cardinality({z \in KeptPartners(x) \ {y} :
                       NodeSimilarity(x, z) >= NodeSimilarity(x, y)})
           < network.maxConnections

Emitted(a, b) ==
    \E i \in DOMAIN network.links :
        \/ network.links[i].source = a /\ network.links[i].target = b
        \/ network.links[i].source = b /\ network.links[i].target = a

\* C9: the edge set is the union over all nodes of the node's maxConnections
\* strongest kept pairs, a node's kept pairs being all its pairs at or above
\* the threshold with any other node, whatever their order in the input: a
\* kept pair in the top maxConnections of either endpoint is emitted.
C9_UnionOfEveryNodesTopK ==
    GraphBuilt =>
        \A a \in NodeIds, b \in NodeIds :
            (a # b /\ (InTopOf(a, b) \/ InTopOf(b, a))) => Emitted(a, b)

\* C20: each node's cluster id is the index of its department in the sorted
\* list of the distinct departments of the filtered set (so it does not
\* depend on the order of the rows), two nodes share a cluster id exactly
\* when they share a department, and the color is the palette entry at
\* cluster id modulo the palette size.
C20_ClusterIdIsSortedDepartmentIndex ==
    GraphBuilt =>
        \A i \in DOMAIN network.nodes :
            /\ network.nodes[i].clusterId =
                   Cardinality({network.nodes[j].department : j \in DOMAIN network.nodes}
                               \cap 0..(network.nodes[i].department - 1))
            /\ network.nodes[i].color = network.nodes[i].clusterId % PaletteSize
            /\ \A j \in DOMAIN network.nodes :
                   network.nodes[i].clusterId = network.nodes[j].clusterId
                       <=> network.nodes[i].department = network.nodes[j].department

\* ------------------------------------------ getEmbeddingPipeline, by caller
\* the callers of getEmbeddingPipeline: the constructor's warm-up, a request's
\* probe (testEmbeddingService) and a request's embedding call
CallerKinds == {"warmup", "probe", "embed"}

LoadInit ==
    /\ faculty = <<>>
    /\ embeddingPipeline = "null"
    /\ isLoadingModel = FALSE
    /\ request = NoRequest
    /\ pc = "idle"
    /\ targetFaculty = <<>>
    /\ candidates = <<>>
    /\ completion = "pending"
    /\ returned = [rows |-> <<>>]
    /\ path = "none"
    /\ trail = NoTrail
    /\ network = NoNetwork
    /\ callers = NoCallers
    /\ primitive = NoPrimitive

\* a caller enters getEmbeddingPipeline and runs to its first await
CallGetEmbeddingPipeline(p, kind) ==
    /\ callers[p].pc = "idle"
    /\ LET branch == EntryBranch(embeddingPipeline, isLoadingModel)
       IN  /\ callers' = [callers EXCEPT ![p] = [pc |-> branch, kind |-> kind, via |-> "none"]]
           /\ isLoadingModel' = IF branch = "loading" THEN TRUE ELSE isLoadingModel
    /\ UNCHANGED <<primitive, faculty, embeddingPipeline, request, pc, targetFaculty, candidates,
                   completion, returned, path, trail, network>>

\* await pipeline(...) settles: the handle is assigned on success, the error
\* is rethrown on failure, and finally clears the flag
LoadSettles(p, loadOK) ==
    /\ callers[p].pc = "loading"
    /\ embeddingPipeline' = IF loadOK THEN "loaded" ELSE embeddingPipeline
    /\ isLoadingModel' = FALSE
    /\ callers' = [callers EXCEPT ![p].pc = IF loadOK THEN "resolved" ELSE "rejected"]
    /\ UNCHANGED <<primitive, faculty, request, pc, targetFaculty, candidates,
                   completion, returned, path, trail, network>>

\* the promise of pipeline(...) is one that never settles: nothing in
\* getEmbeddingPipeline bounds the await
LoadNeverSettles(p) ==
    /\ callers[p].pc = "loading"
    /\ callers' = [callers EXCEPT ![p].pc = "loadStalled"]
    /\ UNCHANGED <<primitive, faculty, embeddingPipeline, isLoadingModel, request, pc, targetFaculty,
                   candidates, completion, returned, path, trail, network>>

\* a timer tick of the waiting loop that finds the flag cleared: the caller
\* returns embeddingPipeline!, whatever it holds
PollWake(p) ==
    /\ callers[p].pc = "polling"
    /\ ~isLoadingModel
    /\ callers' = [callers EXCEPT
                       ![p].pc = IF embeddingPipeline = "loaded" THEN "resolved"
                                 ELSE "resolvedNull"]
    /\ UNCHANGED <<primitive, faculty, embeddingPipeline, isLoadingModel, request, pc, targetFaculty,
                   candidates, completion, returned, path, trail, network>>

\* the caller's continuation: the warm-up ends; a probe or an embedding call
\* runs pipe(...) and goes on densely, or catches and goes to the lexical path
CallerContinues(p, embedOK) ==
    /\ callers[p].pc \in {"resolved", "resolvedNull", "rejected"}
    /\ callers' = [callers EXCEPT
                       ![p].pc = "returned",
                       ![p].via = IF callers[p].kind = "warmup" THEN "none"
                                  ELSE IF callers[p].pc = "resolved" /\ embedOK THEN "dense"
                                  ELSE "lexical"]
    /\ UNCHANGED <<primitive, faculty, embeddingPipeline, isLoadingModel, request, pc, targetFaculty,
                   candidates, completion, returned, path, trail, network>>

\* the call is over; the slot serves a later call
CallerLeaves(p) ==
    /\ callers[p].pc = "returned"
    /\ callers' = [callers EXCEPT ![p] = [pc |-> "idle", kind |-> "none", via |-> "none"]]
    /\ UNCHANGED <<primitive, faculty, embeddingPipeline, isLoadingModel, request, pc, targetFaculty,
                   candidates, completion, returned, path, trail, network>>

LoadNext ==
    \/ \E p \in Callers, kind \in CallerKinds : CallGetEmbeddingPipeline(p, kind)
    \/ \E p \in Callers, loadOK \in BOOLEAN : LoadSettles(p, loadOK)
    \/ \E p \in Callers : LoadNeverSettles(p)
    \/ \E p \in Callers : PollWake(p)
    \/ \E p \in Callers, embedOK \in BOOLEAN : CallerContinues(p, embedOK)
    \/ \E p \in Callers : CallerLeaves(p)

\* the event loop runs every ready continuation and every due timer; a
\* pending load that can settle does settle
LoadSpec ==
    /\ LoadInit
    /\ [][LoadNext]_vars
    /\ \A p \in Callers :
           /\ WF_vars(\E loadOK \in BOOLEAN : LoadSettles(p, loadOK))
           /\ WF_vars(PollWake(p))
           /\ WF_vars(\E embedOK \in BOOLEAN : CallerContinues(p, embedOK))
           /\ WF_vars(CallerLeaves(p))

\* ------------------------------------------------- properties of the load
InFlight == {p \in Callers : callers[p].pc \in {"loading", "loadStalled"}}

\* C5: under every interleaving of the callers of getEmbeddingPipeline, at
\* most one model load is in flight at any time, a caller arriving during a
\* load waits for it instead of starting its own, and once a load has
\* succeeded no further load is ever started.
C5_SingleLoadInFlight ==
    /\ [](Cardinality(InFlight) <= 1)
    /\ [][\A p \in Callers :
             (callers[p].pc = "idle" /\ callers'[p].pc # "idle") =>
                 /\ (InFlight # {} /\ embeddingPipeline # "loaded")
                        => callers'[p].pc = "polling"
                 /\ embeddingPipeline = "loaded" => callers'[p].pc = "resolved"]_vars
    /\ [][embeddingPipeline = "loaded" =>
             /\ embeddingPipeline' = "loaded"
             /\ \A p \in Callers : callers'[p].pc = "loading" => callers[p].pc = "loading"]_vars

C5_Witness ==
    /\ \E p \in Callers, q \in Callers :
           /\ callers[p].pc = "loading"
           /\ callers[q].pc = "polling"
    /\ \E r \in Callers : callers[r].pc = "returned"

\* C6: every matchByRecord / matchByQuery call eventually returns: when the
\* provider load never completes the call goes to the lexical path as for a
\* provider failure, and neither the caller that started the load nor the
\* callers waiting on it are blocked forever.
C6_EveryCallEventuallyReturns ==
    \A p \in Callers :
        (callers[p].kind \in {"probe", "embed"} /\ callers[p].pc # "idle")
            ~> (callers[p].pc = "returned" /\ callers[p].via \in {"dense", "lexical"})

\* a load in progress: its promise is pending and can still settle
Loading == {p \in Callers : callers[p].pc = "loading"}

\* C25: after a model load fails or is abandoned no partial state is left:
\* the loading flag is false and the handle is null again, so the next caller
\* of getEmbeddingPipeline starts a fresh load instead of waiting, and the
\* request that observed the failure goes on to the lexical fallback.
C25_NoPartialStateAfterFailedLoad ==
    /\ [][\A p \in Callers :
             (callers[p].pc = "loading" /\ callers'[p].pc \in {"rejected", "loadStalled"}) =>
                 /\ ~isLoadingModel'
                 /\ embeddingPipeline' = "null"]_vars
    /\ [][\A p \in Callers :
             (/\ callers[p].pc = "idle"
              /\ callers'[p].pc # "idle"
              /\ embeddingPipeline = "null"
              /\ Loading = {}) => callers'[p].pc = "loading"]_vars
    /\ [][\A p \in Callers :
             (/\ callers[p].pc = "rejected"
              /\ callers[p].kind # "warmup"
              /\ callers'[p].pc = "returned") => callers'[p].via = "lexical"]_vars

\* C26: getEmbeddingPipeline never resolves to a null or unloaded handle:
\* every call, a call that waited on another caller's load which then failed
\* included, resolves to the loaded provider or rejects with an error.
C26_NeverResolvesToNullHandle ==
    \A p \in Callers :
        /\ callers[p].pc # "resolvedNull"
        /\ callers[p].pc = "resolved" => embeddingPipeline = "loaded"

\* ------------------------------------------------ one request at a time
\* the process serving either a match call or a graph request
ServeNext ==
    \/ network.pc = "idle" /\ Next
    \/ pc = "idle" /\ GraphNext

ServeSpec == Init /\ [][ServeNext]_vars

\* ---------------------------------------- properties of stored embeddings
WellFormed(f) == Len(f.embedding[1]) \in {NativeDim, StorageDim}

\* C14: every pair of vectors handed to the cosine on the dense path, in
\* record mode and in query mode, and in the graph builder consists of two
\* native-length vectors: a stored embedding is cut to its first native-
\* length entries before any similarity is computed.
C14_OnlyNativeVectorsCompared ==
    /\ \A lengths \in trail.compared : lengths = <<NativeDim, NativeDim>>
    /\ \A lengths \in network.compared : lengths = <<NativeDim, NativeDim>>

C14_Witness ==
    /\ Done
    /\ request.mode = "record"
    /\ path = "dense"
    /\ trail.compared # {}
    /\ targetFaculty[1].embedding # <<>>
    /\ Len(targetFaculty[1].embedding[1]) = StorageDim
    /\ \E i \in DOMAIN candidates : Len(candidates[i].embedding[1]) = NativeDim
    /\ returned.rows # <<>>

\* the dense ranking over the well-formed candidates only
RankingOfWellFormed ==
    LET kept == SelectSeq(candidates, WellFormed)
        targetEmbedding ==
            IF request.mode = "record" THEN TargetEmbedding(targetFaculty[1], TRUE)
            ELSE generateEmbedding(request.query, TRUE)
    IN  findSimilarFaculty(targetEmbedding.val,
                           [i \in DOMAIN kept |-> ReadStoredEmbedding(kept[i].embedding[1]).val],
                           kept, request.options.maxResults, request.options.minSimilarity)

\* C15: when a candidate's stored embedding is malformed only that record is
\* excluded: the dense ranking, and likewise the graph, is produced from the
\* well-formed records, and the call neither fails nor leaves the dense path.
C15_MalformedRecordExcludedAlone ==
    /\ (Done /\ trail.embeddings = "some" /\ trail.rank # "threw") =>
           /\ path = "dense"
           /\ returned.rows = RankingOfWellFormed
    /\ (network.pc = "done" /\ network.error # "Failed to fetch faculty data") =>
           /\ network.status = 200
           /\ Len(network.nodes) =
                  Len(SelectSeq(Select(faculty, network.filterSchool, network.filterDepartment),
                                LAMBDA f : f.embedding # <<>> /\ WellFormed(f)))

\* C23: matchByRecord, matchByQuery and the graph builder never modify
\* storage: on every path, the one where the target's embedding is computed
\* on the fly included, the stored records and their stored embeddings are
\* after every step of the call what they were before it.
C23_CallsNeverModifyStorage == [][faculty' = faculty]_vars

C23_Witness ==
    /\ Done
    /\ request.mode = "record"
    /\ path = "dense"
    /\ targetFaculty[1].embedding = <<>>
    /\ faculty[PositionOf(request.targetFacultyId)].embedding = <<>>
    /\ returned.rows # <<>>

\* -------------------------------------------- api/faculty/[id]/route.ts
\* Math.min(similarityCount, 8)
RouteMaxResults == 8

\* minSimilarity: 0.1
RouteMinSimilarity == 10

\* the values of the query parameter k
SimilarityCountValues == {0 - 1, 0, 2, 9}

\* GET /api/faculty/[id]?k=..&school=..&department=..: 404 when the row is
\* missing or its fetch fails; else calculateAdvancedSimilarity(id, ...) with
\* maxResults = Math.min(k, 8) and useAdvanced left at its default
FacultyRouteGET(id, similarityCount, school, department, fetchOK) ==
    /\ pc = "idle"
    /\ IF fetchOK /\ \E i \in DOMAIN faculty : faculty[i].faculty_id = id
       THEN /\ request' = [mode |-> "record", targetFacultyId |-> id, query |-> <<>>,
                           options |-> [maxResults |-> Min(similarityCount, RouteMaxResults),
                                        minSimilarity |-> RouteMinSimilarity,
                                        filterSchool |-> school,
                                        filterDepartment |-> department,
                                        useAdvanced |-> TRUE]]
            /\ pc' = "probe"
            /\ UNCHANGED completion
       ELSE /\ completion' = "notFound"
            /\ pc' = "done"
            /\ UNCHANGED request
    /\ UNCHANGED <<faculty, embeddingPipeline, isLoadingModel, targetFaculty, candidates,
                   returned, path, trail, network, callers, primitive>>

RouteNext ==
    \/ \E id \in 1..(MaxFaculty + 1), similarityCount \in SimilarityCountValues,
          filter \in Filters, fetchOK \in BOOLEAN :
           FacultyRouteGET(id, similarityCount, filter[1], filter[2], fetchOK)
    \/ \E loadOK \in BOOLEAN, embedOK \in BOOLEAN : ProbeDense(loadOK, embedOK)
    \/ \E fetchOK \in BOOLEAN : FetchTarget(fetchOK)
    \/ \E fetchOK \in BOOLEAN : FetchCandidates(fetchOK)
    \/ \E embedOK \in BOOLEAN : DenseRank(embedOK)
    \/ \E fetchOK \in BOOLEAN : LexicalOnly(fetchOK)

RouteSpec == Init /\ [][RouteNext]_vars

\* the ranking the call computed, before the cap: the same operation asked
\* for as many rows as the table holds
UncappedRows ==
    LET uncapped == [request.options EXCEPT !.maxResults = Len(faculty)]
    IN  IF path = "lexical"
        THEN IF request.mode = "record"
             THEN calculateSimilarFaculty(faculty, trail.lexicalFetch = "ok",
                                          request.targetFacultyId, uncapped)
             ELSE searchSimilarFaculty(faculty, trail.lexicalFetch = "ok",
                                       request.query, uncapped)
        ELSE findSimilarFaculty(
                 IF request.mode = "record"
                 THEN TargetEmbedding(targetFaculty[1], TRUE).val
                 ELSE generateEmbedding(request.query, TRUE).val,
                 [i \in DOMAIN candidates |-> ReadStoredEmbedding(candidates[i].embedding[1]).val],
                 candidates, uncapped.maxResults, uncapped.minSimilarity)

\* C11: a match result never has more than maxResults rows and consists of
\* the highest-ranked qualifying candidates, for every integer maxResults a
\* caller can pass, 0 and the negative values the faculty route forwards as
\* min(k, 8) included.
C11_AtMostMaxResultsHighestRanked ==
    (Done /\ path \in {"dense", "lexical"}) =>
        /\ Len(returned.rows) <= Max(request.options.maxResults, 0)
        /\ returned.rows =
               SubSeq(UncappedRows, 1,
                      Min(Len(UncappedRows), Max(request.options.maxResults, 0)))

\* --------------------------------------------- the writes of embeddings
\* what pipe(...) resolves with: the native vector of the text, followed by
\* `extra` further entries when the provider's output is longer than native
\* (generateEmbedding only warns, generateEmbeddings does not look)
ProviderOutput(cleanedText, extra) == pipe(cleanedText) \o [i \in 1..extra |-> 1]

\* the lengths by which a provider output may exceed the native length
ExtraLengths == {0, 1, StorageDim - NativeDim, StorageDim - NativeDim + 1}

\* transformers-embedding generateEmbeddings: the texts that are empty once
\* cleaned are dropped before the provider is called, so the result may be
\* shorter than texts; zeros for every text when all are empty
generateEmbeddings(texts, providerOK, extra) ==
    LET cleaned == [i \in DOMAIN texts |-> cleanText(texts[i])]
        cleanedTexts == SelectSeq(cleaned, LAMBDA t : t # <<>>)
    IN  IF cleanedTexts = <<>> THEN Ok([i \in DOMAIN texts |-> Zeros(NativeDim)])
        ELSE IF ~providerOK THEN Threw
        ELSE Ok([i \in DOMAIN cleanedTexts |-> ProviderOutput(cleanedTexts[i], extra)])

\* embeddings.map(emb => padEmbeddingTo1536(emb)): throws when one throws
PadAll(embeddings) ==
    LET padded == [i \in DOMAIN embeddings |-> padEmbeddingTo1536(embeddings[i])]
    IN  IF \E i \in DOMAIN embeddings : ~padded[i].ok THEN Threw
        ELSE Ok([i \in DOMAIN embeddings |-> padded[i].val])

\* element index of an array, NULL (<<>>) where the array has none: what
\* JSON.stringify(undefined) binds
StoredAt(paddedEmbeddings, index) ==
    IF index \in DOMAIN paddedEmbeddings THEN <<paddedEmbeddings[index]>> ELSE <<>>

\* INSERT ... ON CONFLICT (faculty_id) DO UPDATE; withEmbedding says whether
\* the statement names the embedding column
Upsert(table, row, withEmbedding) ==
    IF \E i \in DOMAIN table : table[i].faculty_id = row.faculty_id
    THEN [i \in DOMAIN table |->
             IF table[i].faculty_id # row.faculty_id THEN table[i]
             ELSE [row EXCEPT !.embedding =
                                  IF withEmbedding THEN row.embedding ELSE table[i].embedding]]
    ELSE Append(table, row)

RECURSIVE UpsertAll(_, _, _)
UpsertAll(table, rows, withEmbedding) ==
    IF rows = <<>> THEN table
    ELSE UpsertAll(Upsert(table, rows[1], withEmbedding), Tail(rows), withEmbedding)

\* the keywords of an uploaded row; <<>> is a blank field
IngestKeywords == {<<1, 2>>, <<1>>, <<-1>>, <<>>}

\* the uploads: rows 1..n, n up to MaxFaculty
IngestPayloads ==
    UNION { { [i \in 1..n |-> [faculty_id |-> i, school |-> 1, department |-> 1,
                               keywords |-> k[i], embedding |-> <<>>]] :
              k \in [1..n -> IngestKeywords] } : n \in 1..MaxFaculty }

StoreInit ==
    /\ faculty = <<>>
    /\ embeddingPipeline = "null"
    /\ isLoadingModel = FALSE
    /\ request = NoRequest
    /\ pc = "idle"
    /\ targetFaculty = <<>>
    /\ candidates = <<>>
    /\ completion = "pending"
    /\ returned = [rows |-> <<>>]
    /\ path = "none"
    /\ trail = NoTrail
    /\ network = NoNetwork
    /\ callers = NoCallers
    /\ primitive = NoPrimitive

\* POST /api/ingest, the first import into the empty table, before any other
\* write: 400 on a blank
\* field; else the rows with their padded embeddings in one transaction;
\* when the embeddings, the padding or that transaction throw, the rows
\* without embeddings in a second transaction; 500 when that throws too
IngestPOST(payload, providerOK, extra, firstOK, secondOK) ==
    /\ faculty = <<>>
    /\ primitive.op = "none"
    /\ LET embeddings == generateEmbeddings([i \in DOMAIN payload |-> payload[i].keywords],
                                            providerOK, extra)
           paddedEmbeddings == IF embeddings.ok THEN PadAll(embeddings.val) ELSE Threw
           facultyWithEmbeddings ==
               [index \in DOMAIN payload |->
                   [payload[index] EXCEPT !.embedding = StoredAt(paddedEmbeddings.val, index)]]
           valid == \A i \in DOMAIN payload : payload[i].keywords # <<>>
       IN  /\ faculty' =
                  IF ~valid THEN faculty
                  ELSE IF paddedEmbeddings.ok /\ firstOK
                  THEN UpsertAll(faculty, facultyWithEmbeddings, TRUE)
                  ELSE IF secondOK THEN UpsertAll(faculty, payload, FALSE)
                  ELSE faculty
           /\ primitive' =
                  IF ~valid THEN [op |-> "ingest", status |-> 400]
                  ELSE [op |-> "ingest",
                        status |-> IF (paddedEmbeddings.ok /\ firstOK) \/ secondOK
                                   THEN 200 ELSE 500,
                        texts |-> [i \in DOMAIN payload |-> payload[i].keywords],
                        embeddings |-> embeddings,
                        stored |-> paddedEmbeddings.ok /\ firstOK]
    /\ UNCHANGED <<embeddingPipeline, isLoadingModel, request, pc, targetFaculty, candidates,
                   completion, returned, path, trail, network, callers>>

\* AdvancedSimilarityService.generateAndStoreEmbeddings: false, and no write,
\* when the fetch, the provider or the padding fail; else one update per row
\* with the padded embedding at the row's index.  undefinedIsNull: whether
\* the client binds a missing embedding as NULL or leaves the column alone
generateAndStoreEmbeddings(fetchOK, providerOK, extra, updateOK, undefinedIsNull) ==
    /\ LET embeddings == generateEmbeddings([i \in DOMAIN faculty |-> faculty[i].keywords],
                                            providerOK, extra)
           paddedEmbeddings == IF embeddings.ok THEN PadAll(embeddings.val) ELSE Threw
       IN  /\ faculty' =
                  IF ~fetchOK \/ ~paddedEmbeddings.ok THEN faculty
                  ELSE [j \in DOMAIN faculty |->
                           IF ~updateOK THEN faculty[j]
                           ELSE IF j \notin DOMAIN paddedEmbeddings.val /\ ~undefinedIsNull
                           THEN faculty[j]
                           ELSE [faculty[j] EXCEPT
                                    !.embedding = StoredAt(paddedEmbeddings.val, j)]]
           /\ primitive' =
                  IF ~fetchOK THEN [op |-> "generateAndStore", result |-> FALSE]
                  ELSE [op |-> "generateAndStore",
                        result |-> paddedEmbeddings.ok,
                        texts |-> [i \in DOMAIN faculty |-> faculty[i].keywords],
                        embeddings |-> embeddings,
                        stored |-> paddedEmbeddings.ok /\ updateOK]
    /\ UNCHANGED <<embeddingPipeline, isLoadingModel, request, pc, targetFaculty, candidates,
                   completion, returned, path, trail, network, callers>>

StoreNext ==
    \/ \E payload \in IngestPayloads, providerOK \in BOOLEAN, extra \in ExtraLengths,
          firstOK \in BOOLEAN, secondOK \in BOOLEAN :
           IngestPOST(payload, providerOK, extra, firstOK, secondOK)
    \/ \E fetchOK \in BOOLEAN, providerOK \in BOOLEAN, extra \in ExtraLengths,
          updateOK \in BOOLEAN, undefinedIsNull \in BOOLEAN :
           generateAndStoreEmbeddings(fetchOK, providerOK, extra, updateOK, undefinedIsNull)

StoreSpec == StoreInit /\ [][StoreNext]_vars

\* C13: every embedding the system writes to storage, by the bulk ingest and
\* by generateAndStoreEmbeddings, has storage length and its last S - N
\* entries are exactly zero, whatever vector the provider returned and the
\* padding helper was handed.
C13_PersistedVectorsZeroTail ==
    \A i \in DOMAIN faculty :
        faculty[i].embedding # <<>> =>
            /\ Len(faculty[i].embedding[1]) = StorageDim
            /\ \A k \in (NativeDim + 1)..StorageDim : faculty[i].embedding[1][k] = 0

\* the write that just ended handed texts to generateEmbeddings
BulkEmbedded == "embeddings" \in DOMAIN primitive /\ primitive.embeddings.ok

\* the vector is the provider's output for the text
EmbeddingOf(vector, text) ==
    /\ Len(vector) >= NativeDim
    /\ SubSeq(vector, 1, NativeDim) = pipe(cleanText(text))

\* C29: generateEmbeddings(texts) returns exactly one vector per input text,
\* at the index of its text, also when some texts clean to the empty string;
\* hence bulk ingest and generateAndStoreEmbeddings store every record with
\* the embedding of its own keywords and leave no record without one.
C29_OneVectorPerTextAtItsIndex ==
    BulkEmbedded =>
        /\ Len(primitive.embeddings.val) = Len(primitive.texts)
        /\ \A i \in DOMAIN primitive.texts :
               EmbeddingOf(primitive.embeddings.val[i], primitive.texts[i])
        /\ primitive.stored =>
               \A i \in DOMAIN faculty :
                   /\ faculty[i].embedding # <<>>
                   /\ EmbeddingOf(faculty[i].embedding[1], faculty[i].keywords)

\* ------------------------------------------- the vector primitives, alone
\* every sequence of length n over the set S
SeqsOf(S, n) == [1..n -> S]

\* the vectors handed to the primitives: one entry short of native, native,
\* one entry over, storage length with a zero tail and with a non-zero tail,
\* and one entry over storage length
VectorPool ==
    UNION {SeqsOf({0, 1}, n) : n \in (NativeDim - 1)..(NativeDim + 1)}
    \cup {[i \in 1..NativeDim |-> 0 - 1], [i \in 1..NativeDim |-> IF i = 1 THEN 0 - 1 ELSE 1]}
    \cup {v \o Zeros(StorageDim - NativeDim) : v \in SeqsOf({0, 1}, NativeDim)}
    \cup {Zeros(StorageDim - 1) \o <<1>>, [i \in 1..StorageDim |-> 1]}
    \cup {Zeros(StorageDim) \o <<1>>}

\* the thresholds (hundredths) a ranking or a graph is asked for
PrimitiveThresholds == {10, 50}

VectorInit ==
    /\ faculty = <<>>
    /\ embeddingPipeline = "null"
    /\ isLoadingModel = FALSE
    /\ request = NoRequest
    /\ pc = "idle"
    /\ targetFaculty = <<>>
    /\ candidates = <<>>
    /\ completion = "pending"
    /\ returned = [rows |-> <<>>]
    /\ path = "none"
    /\ trail = NoTrail
    /\ network = NoNetwork
    /\ callers = NoCallers
    /\ primitive = NoPrimitive

\* padEmbeddingTo1536(v) and padEmbeddingTo1536Compat(v)
PadCall(v) ==
    /\ primitive.op = "none"
    /\ primitive' = [op |-> "pad", input |-> v,
                     result |-> padEmbeddingTo1536(v),
                     compat |-> padEmbeddingTo1536Compat(v)]
    /\ UNCHANGED <<faculty, embeddingPipeline, isLoadingModel, request, pc, targetFaculty,
                   candidates, completion, returned, path, trail, network, callers>>

\* extractEmbeddingFrom1536(v) and the two extractReal384Embedding(v)
ExtractCall(v) ==
    /\ primitive.op = "none"
    /\ primitive' = [op |-> "extract", input |-> v,
                     result |-> Ok(extractEmbeddingFrom1536(v)),
                     real384 |-> extractReal384Embedding(v),
                     route |-> extractReal384(v)]
    /\ UNCHANGED <<faculty, embeddingPipeline, isLoadingModel, request, pc, targetFaculty,
                   candidates, completion, returned, path, trail, network, callers>>

\* the extraction applied to what the padding just returned
ExtractPadded ==
    /\ primitive.op = "pad"
    /\ primitive.result.ok
    /\ primitive' = [op |-> "roundTrip", input |-> primitive.input,
                     result |-> Ok(extractEmbeddingFrom1536(primitive.result.val)),
                     compat |-> IF primitive.compat.ok
                                THEN extractReal384Embedding(primitive.compat.val)
                                ELSE Threw]
    /\ UNCHANGED <<faculty, embeddingPipeline, isLoadingModel, request, pc, targetFaculty,
                   candidates, completion, returned, path, trail, network, callers>>

\* a candidate row holding the native vector b
CandidateWith(b) == [faculty_id |-> 2, school |-> 1, department |-> 1, embedding |-> b]

\* the three cosines on (a, b), and b as the only candidate of a dense
\* ranking and as the only later node of a graph, both asked for threshold
CosineCall(a, b, threshold) ==
    /\ primitive.op = "none"
    /\ primitive' = [op |-> "cosine", a |-> a, b |-> b, threshold |-> threshold,
                     dense |-> cosineSimilarity(a, b),
                     lexical |-> cosineSimilarityLexical(a, b),
                     graph |-> calculateCosineSimilarity(a, b),
                     ranked |-> findSimilar(a, <<CandidateWith(b)>>, 1, threshold),
                     links |-> LinksOf(1, <<CandidateWith(a), CandidateWith(b)>>,
                                       <<a, b>>, threshold, 1)]
    /\ UNCHANGED <<faculty, embeddingPipeline, isLoadingModel, request, pc, targetFaculty,
                   candidates, completion, returned, path, trail, network, callers>>

\* the caller is done with the results
PrimitiveReturns ==
    /\ primitive.op # "none"
    /\ primitive' = NoPrimitive
    /\ UNCHANGED <<faculty, embeddingPipeline, isLoadingModel, request, pc, targetFaculty,
                   candidates, completion, returned, path, trail, network, callers>>

VectorNext ==
    \/ PrimitiveReturns
    \/ \E v \in VectorPool : PadCall(v)
    \/ \E v \in VectorPool : ExtractCall(v)
    \/ ExtractPadded
    \/ \E a \in VectorPool, b \in VectorPool, threshold \in PrimitiveThresholds :
           CosineCall(a, b, threshold)

VectorSpec == VectorInit /\ [][VectorNext]_vars

\* ------------------------------------------ properties of the primitives
AllZero(v) == \A i \in DOMAIN v : v[i] = 0

\* C12: for every native-length vector v, extracting from the padding of v
\* gives v back element for element, with padEmbeddingTo1536 /
\* extractEmbeddingFrom1536 and with their checked wrappers.
C12_ExtractOfPadIsIdentity ==
    (primitive.op = "roundTrip" /\ Len(primitive.input) = NativeDim) =>
        /\ primitive.result = Ok(primitive.input)
        /\ primitive.compat = Ok(primitive.input)

C12_Witness ==
    /\ primitive.op = "roundTrip"
    /\ Len(primitive.input) = NativeDim
    /\ primitive.input[NativeDim] = 1
    /\ primitive.input[1] = 0
    /\ primitive.result.val = primitive.input

\* C16: cosineSimilarity(a, b) fails whenever len(a) # len(b), in the dense
\* ranking's, the lexical ranking's and the graph builder's implementation;
\* none of them returns a number for vectors of different lengths.
C16_CosineFailsOnLengthMismatch ==
    (primitive.op = "cosine" /\ Len(primitive.a) # Len(primitive.b)) =>
        /\ ~primitive.dense.ok
        /\ primitive.lexical \notin Int
        /\ primitive.graph \notin {Num(x) : x \in -100..100}

\* C17: for vectors of equal length, one of them all zeros, the similarity is
\* exactly 0 and never NaN in each implementation, so the zero vector passes
\* no positive minSimilarity and no positive graph threshold.
C17_ZeroVectorScoresZero ==
    (/\ primitive.op = "cosine"
     /\ Len(primitive.a) = Len(primitive.b)
     /\ (AllZero(primitive.a) \/ AllZero(primitive.b))) =>
        /\ primitive.dense = Ok(0)
        /\ primitive.lexical = 0
        /\ primitive.graph = Num(0)
        /\ primitive.threshold > 0 =>
               /\ primitive.ranked = Ok(<<>>)
               /\ primitive.links = <<>>

C17_Witness ==
    /\ primitive.op = "cosine"
    /\ Len(primitive.a) = NativeDim
    /\ Len(primitive.b) = NativeDim
    /\ ~AllZero(primitive.a)
    /\ AllZero(primitive.b)
    /\ primitive.threshold > 0
    /\ primitive.ranked = Ok(<<>>)

\* C18: padEmbeddingTo1536 fails for every input whose length is not the
\* native length, an input of storage length and a longer one included, and
\* returns a value only for native-length inputs.
C18_PadFailsUnlessNative ==
    primitive.op = "pad" =>
        /\ primitive.result.ok <=> Len(primitive.input) = NativeDim
        /\ primitive.compat.ok <=> Len(primitive.input) = NativeDim

\* C19: extractEmbeddingFrom1536 / extractReal384Embedding fail for every
\* input whose length is not the storage length and return the first native-
\* length entries only for storage-length inputs.
C19_ExtractFailsUnlessStorage ==
    primitive.op = "extract" =>
        /\ primitive.result.ok <=> Len(primitive.input) = StorageDim
        /\ primitive.real384.ok <=> Len(primitive.input) = StorageDim
        /\ primitive.route.ok <=> Len(primitive.input) = StorageDim
        /\ Len(primitive.input) = StorageDim =>
               /\ primitive.result.val = SubSeq(primitive.input, 1, NativeDim)
               /\ primitive.real384.val = SubSeq(primitive.input, 1, NativeDim)
               /\ primitive.route.val = SubSeq(primitive.input, 1, NativeDim)

\* ------------------------------- api/network/route.ts, the cluster names
\* A node's keywords field, split on ',' and ';' and trimmed, is a sequence
\* of phrases.  Phrase 0 stands for the phrases the filter drops: at most two
\* characters long, or one of the commonWords.
CommonOrShort == {0}

\* the phrases of the cluster, node after node, after the filter
RECURSIVE ClusterKeywords(_)
ClusterKeywords(clusterNodes) ==
    IF clusterNodes = <<>> THEN <<>>
    ELSE SelectSeq(clusterNodes[1].keywords, LAMBDA kw : kw \notin CommonOrShort)
         \o ClusterKeywords(Tail(clusterNodes))

\* Object.entries(keywordCounts): one entry per phrase, in insertion order
KeywordCounts(clusterNodes) ==
    LET all == ClusterKeywords(clusterNodes)
        keys == Distinct(all)
    IN  [i \in DOMAIN keys |-> [keyword |-> keys[i], count |-> Count(all, keys[i])]]

\* .sort(([,a], [,b]) => b - a): stable, descending
RECURSIVE SortByCount(_)
SortByCount(entries) ==
    IF entries = <<>> THEN <<>>
    ELSE LET top == CHOOSE v \in {entries[i].count : i \in DOMAIN entries} :
                        \A i \in DOMAIN entries : entries[i].count <= v
         IN  SelectSeq(entries, LAMBDA e : e.count = top)
             \o SortByCount(SelectSeq(entries, LAMBDA e : e.count # top))

\* `Research Cluster ${clusterId + 1}`
GenericName(clusterId) == [generic |-> TRUE, number |-> clusterId + 1, keywords |-> <<>>]

\* the formatted phrases joined by ' & '
KeywordName(keywords) == [generic |-> FALSE, number |-> 0, keywords |-> keywords]

\* Math.max(1, Math.ceil(clusterNodes.length * 0.2))
CoverageThreshold(size) == Max(1, (size + 4) \div 5)

\* the second phrase is appended when the top phrase and the second phrase
\* both reach the coverage threshold and the second has >= 0.7 of the top's
\* count
generateClusterName(clusterNodes, clusterId) ==
    LET sortedKeywords == SortByCount(KeywordCounts(clusterNodes))
        threshold == CoverageThreshold(Len(clusterNodes))
    IN  IF sortedKeywords = <<>> THEN GenericName(clusterId)
        ELSE IF sortedKeywords[1].count >= threshold
        THEN IF /\ Len(sortedKeywords) >= 2
                /\ sortedKeywords[2].count >= threshold
                /\ 10 * sortedKeywords[2].count >= 7 * sortedKeywords[1].count
             THEN KeywordName(<<sortedKeywords[1].keyword, sortedKeywords[2].keyword>>)
             ELSE KeywordName(<<sortedKeywords[1].keyword>>)
        ELSE KeywordName(<<sortedKeywords[1].keyword>>)

\* n nodes with the same keywords
Repeat(keywords, n) == [i \in 1..n |-> [keywords |-> keywords]]

\* the most nodes of a cluster that name one phrase, and the most that name
\* no phrase the filter keeps
MaxNaming == 4

MaxSilent == 9

\* the clusters: a nodes naming phrase 1, b naming phrase 2, c naming both,
\* d naming only dropped phrases, e with an empty keywords field
Clusters ==
    { Repeat(<<1>>, a) \o Repeat(<<2>>, b) \o Repeat(<<2, 0, 1>>, c)
      \o Repeat(<<0>>, d) \o Repeat(<<>>, e) :
      a \in 0..MaxNaming, b \in 0..MaxNaming, c \in 0..1, d \in 0..MaxSilent, e \in 0..1 }
    \ {<<>>}

\* generateClusterName(clusterNodes, clusterId) for one group of clusterGroups
ClusterNameCall(clusterNodes, clusterId) ==
    /\ primitive.op = "none"
    /\ primitive' = [op |-> "clusterName", clusterNodes |-> clusterNodes,
                     clusterId |-> clusterId,
                     name |-> generateClusterName(clusterNodes, clusterId)]
    /\ UNCHANGED <<faculty, embeddingPipeline, isLoadingModel, request, pc, targetFaculty,
                   candidates, completion, returned, path, trail, network, callers>>

ClusterNext ==
    \/ PrimitiveReturns
    \/ \E clusterNodes \in Clusters, clusterId \in 0..1 :
           ClusterNameCall(clusterNodes, clusterId)

ClusterSpec == VectorInit /\ [][ClusterNext]_vars

\* ---------------------------------------- properties of the cluster names
\* how many times the phrase is named in the cluster
Named(clusterNodes, kw) == Count(ClusterKeywords(clusterNodes), kw)

Surviving(clusterNodes) == Range(ClusterKeywords(clusterNodes))

\* C21: if no keyword token survives the filter the label is the generic
\* "Research Cluster N"; otherwise the label starts with the most frequent
\* token, and the second most frequent token is appended exactly when the
\* top token's count is >= 20% of the cluster size and the second token's
\* count is >= 70% of the top token's count.
C21_ClusterLabelRule ==
    primitive.op = "clusterName" =>
        LET nodes == primitive.clusterNodes
            name == primitive.name
            tokens == Surviving(nodes)
        IN  IF tokens = {} THEN name = GenericName(primitive.clusterId)
            ELSE /\ ~name.generic
                 /\ Len(name.keywords) \in {1, 2}
                 /\ name.keywords[1] \in tokens
                 /\ \A kw \in tokens : Named(nodes, kw) <= Named(nodes, name.keywords[1])
                 /\ Len(name.keywords) = 2 <=>
                        \E second \in tokens \ {name.keywords[1]} :
                            /\ \A kw \in tokens \ {name.keywords[1]} :
                                   Named(nodes, kw) <= Named(nodes, second)
                            /\ 5 * Named(nodes, name.keywords[1]) >= Len(nodes)
                            /\ 10 * Named(nodes, second) >= 7 * Named(nodes, name.keywords[1])
                 /\ Len(name.keywords) = 2 =>
                        /\ name.keywords[2] \in tokens \ {name.keywords[1]}
                        /\ \A kw \in tokens \ {name.keywords[1]} :
                               Named(nodes, kw) <= Named(nodes, name.keywords[2])

\* --------------------------------------- generateEmbedding, by caller
\* the texts handed to generateEmbedding: the empty string, punctuation only,
\* a word between punctuation
EmbedTexts == {<<>>, <<-1>>, <<-1, 1, -1>>}

\* an entry that goes to the provider whatever the text
generateEmbeddingEntryAlwaysProvider(text, pipeline, loading) ==
    EntryBranch(pipeline, loading)

\* generateEmbedding up to its first await: a text that is empty once
\* cleaned returns the zero vector at once; else getEmbeddingPipeline is
\* entered
generateEmbeddingEntry(text, pipeline, loading) ==
    IF cleanText(text) = <<>> THEN "zeros" ELSE EntryBranch(pipeline, loading)

\* a caller invokes generateEmbedding(text) and runs to its first await, or
\* to its return when there is none
CallGenerateEmbedding(p, text) ==
    /\ callers[p].pc = "idle"
    /\ LET branch == generateEmbeddingEntry(text, embeddingPipeline, isLoadingModel)
       IN  /\ callers' = [callers EXCEPT
                              ![p] = IF branch = "zeros"
                                     THEN [pc |-> "returned", kind |-> "embed", via |-> "dense"]
                                     ELSE [pc |-> branch, kind |-> "embed", via |-> "none"]]
           /\ isLoadingModel' = IF branch = "loading" THEN TRUE ELSE isLoadingModel
           /\ primitive' = [op |-> "generateEmbedding", caller |-> p, text |-> text,
                            result |-> IF branch = "zeros" THEN <<Zeros(NativeDim)>>
                                       ELSE <<>>]  \* <<>>: not settled yet
    /\ UNCHANGED <<faculty, embeddingPipeline, request, pc, targetFaculty, candidates,
                   completion, returned, path, trail, network>>

EmbedNext ==
    \/ \E p \in Callers, text \in EmbedTexts : CallGenerateEmbedding(p, text)
    \/ \E p \in Callers, loadOK \in BOOLEAN : LoadSettles(p, loadOK)
    \/ \E p \in Callers : PollWake(p)
    \/ \E p \in Callers, embedOK \in BOOLEAN : CallerContinues(p, embedOK)
    \/ \E p \in Callers : CallerLeaves(p)

EmbedSpec == LoadInit /\ [][EmbedNext]_vars

\* C22: generateEmbedding on a text whose cleaned form is empty returns the
\* all-zero vector of native length without loading or calling the provider;
\* the handle and the loading flag are unchanged by such a call.
C22_EmptyTextZeroVectorNoProvider ==
    [][\A p \in Callers :
          (/\ callers[p].pc = "idle"
           /\ callers'[p].pc # "idle"
           /\ cleanText(primitive'.text) = <<>>) =>
              /\ primitive'.result = <<Zeros(NativeDim)>>
              /\ callers'[p].pc = "returned"
              /\ embeddingPipeline' = embeddingPipeline
              /\ isLoadingModel' = isLoadingModel]_vars

C22_Witness ==
    /\ primitive.op = "generateEmbedding"
    /\ primitive.text = <<-1>>
    /\ primitive.result = <<Zeros(NativeDim)>>
    /\ callers[primitive.caller].pc = "returned"
    /\ embeddingPipeline = "null"
    /\ ~isLoadingModel
    /\ \A q \in Callers \ {primitive.caller} : callers[q].pc = "idle"

=============================================================================
